---- MODULE Spec2Model ----
(***************************************************************************)
(* State-machine model of ROS2BagFilterApp (src/filter.py): the observer   *)
(* (Tk main-loop) callbacks browse_input/load_metadata, browse_output,     *)
(* start_processing and check_progress, and the worker thread process_bag. *)
(* The worker and the observer are two threads: process_bag and            *)
(* check_progress are split at their accesses to shared state              *)
(* (self.processing, self.progress_queue, self.min_ts, ...).               *)
(* Time is counted in whole seconds (one model unit = 1e9 ns).             *)
(***************************************************************************)
EXTENDS Integers, Sequences, FiniteSets, TLC

\* ---- bounds ----
MaxLen == 3        \* longest source log (records)
MaxWorkers == 2    \* worker threads alive at the same time

\* ---- the logs on disk ----
TopicNames == {"A", "B"}
InDirs == {"b1"}
OutDirs == {"o1"}

\* a log: record i is stamped i (timestamp order, as the storage delivers it) and
\* data identifies the record
LogOf(t) == [i \in DOMAIN t |-> [topic |-> t[i], data |-> i, timestamp |-> i]]
Sources == UNION { { LogOf(t) : t \in [1..n -> TopicNames] } : n \in 0..MaxLen }

B1Topics == << <<"A", "T1">>, <<"B", "T2">> >>

VARIABLES
  bag,              \* the input logs: bag[dir] = [topics, msgs]
  input_path, output_path,
  available_topics, topic_names, min_ts, duration,
  processing, btn, pct,
  progress_queue,
  obs,              \* where the observer thread is: "idle" or inside a callback
  after,            \* root.after(50, check_progress) is pending
  w,                \* the worker threads, by slot
  enqueued,         \* history: every put since the last start, as <<worker, event>>
  observed,         \* history: the events check_progress has dequeued since then
  rerun,            \* the user starts one more run after the first
  lastStart         \* history: what the last call of start_processing was given

vars == << bag, input_path, output_path, available_topics, topic_names, min_ts,
           duration, processing, btn, pct, progress_queue, obs, after, w,
           enqueued, observed, lastStart, rerun >>

\* ---- values ----
NoVal == << >>                     \* Python None / text that float() rejects
Val(v) == << v >>
Entries == {NoVal} \cup { Val(v) : v \in (0 - 1)..MaxLen }

Float(n, d) == [tag |-> "float", num |-> n, den |-> d, msg |-> ""]
IntObj(n) == [tag |-> "int", num |-> n, den |-> 1, msg |-> ""]
SUCCESS == [tag |-> "str", num |-> 0, den |-> 1, msg |-> "SUCCESS"]
ERROR(m) == [tag |-> "tuple", num |-> 0, den |-> 1, msg |-> m]

IsTerminal(e) == e.tag \in {"str", "tuple"}
IsProgress(e) == e.tag \in {"float", "int"}
IsPct(e, v) == IsProgress(e) /\ e.num = v * e.den

RECURSIVE SelectSeq2(_, _)
\* the records of s on a topic of sel, in order (StorageFilter)
SelectSeq2(s, sel) ==
  IF s = << >> THEN << >>
  ELSE IF Head(s).topic \in sel THEN << Head(s) >> \o SelectSeq2(Tail(s), sel)
       ELSE SelectSeq2(Tail(s), sel)

Range(s) == { s[i] : i \in 1..Len(s) }

\* a worker thread: its position in process_bag, its arguments and locals, what its
\* writer was given (declared, written), the events it has put (emitted) and
\* three history flags for cancellation
NoWorker ==
  [pc |-> "none", selected_topics |-> << >>, start_time |-> 0, end_time |-> 0,
   start_ns |-> 0, end_ns |-> 0, total_duration |-> 0,
   uri_in |-> "", uri_out |-> "", source |-> << >>, pos |-> 0, topic_i |-> 1,
   declared |-> << >>, written |-> << >>, err |-> "", emitted |-> << >>,
   stopped |-> FALSE, aborted |-> FALSE, readAfterStop |-> FALSE]

Live(r) == w[r].pc \notin {"none", "done"}
NoRunYet == \A r \in DOMAIN w : w[r].pc = "none"

\* a log on disk: its topics table, its messages, and whether its storage
\* plugin honours the reader's topic filter
Storage(t, s, f) == [topics |-> t, msgs |-> s, filters |-> f]

\* the state after __init__ (lines 37-50), with the log b on disk
ConstructedOn(b) ==
  /\ bag = [d \in InDirs |-> b]
  /\ input_path = ""
  /\ output_path = ""
  /\ available_topics = << >>
  /\ topic_names = << >>
  /\ min_ts = Val(0)
  /\ duration = 0
  /\ processing = FALSE
  /\ btn = "normal"
  /\ pct = << 0, 1 >>
  /\ progress_queue = << >>
  /\ obs = "idle"
  /\ after = FALSE
  /\ w = [r \in 1..MaxWorkers |-> NoWorker]
  /\ enqueued = << >>
  /\ observed = << >>
  /\ lastStart = "none"

\* with a log of topics table t and messages s, its storage filtering by topic
Constructed(t, s) == ConstructedOn(Storage(t, s, TRUE))

\* a session of one run, with one log of at most MaxLen records on disk
Init == rerun = FALSE /\ \E s \in Sources : Constructed(B1Topics, s)

\* a session of one run on a log whose storage ignores the topic filter
InitUnfiltered ==
  rerun = FALSE /\ \E s \in Sources : ConstructedOn(Storage(B1Topics, s, FALSE))

\* a session of up to two runs, with one log of one topic and one record on disk
InitRerun == rerun = TRUE /\ Constructed(<< <<"A", "T1">> >>, LogOf(<< "A" >>))


\* ---- helpers of the observer callbacks ----
Parses(e) == e # NoVal                       \* float(text) does not raise ValueError
HasKey(d, name) == \E i \in 1..Len(d) : d[i][1] = name
Lookup(d, name) == (CHOOSE p \in Range(d) : p[1] = name)[2]

RECURSIVE Pick(_, _, _)
\* [self.topic_names[i] for i in selected_indices], from index i on
Pick(names, sel, i) ==
  IF i > Len(names) THEN << >>
  ELSE IF i \in sel THEN << names[i] >> \o Pick(names, sel, i + 1)
       ELSE Pick(names, sel, i + 1)

NamesOf(topics) == [i \in 1..Len(topics) |-> topics[i][1]]

\* line 434
BadRange(start, end) == start[1] < 0 \/ end[1] < start[1] \/ end[1] > duration

\* mutant: the comparison with the log's duration is missing
validate_inputs_noBound(sel, start, end) ==
  /\ input_path # ""
  /\ output_path # ""
  /\ sel # {}
  /\ Parses(start) /\ Parses(end)
  /\ ~(start[1] < 0 \/ end[1] < start[1])

validate_inputs(sel, start, end) ==
  /\ input_path # ""
  /\ output_path # ""
  /\ sel # {}
  /\ Parses(start) /\ Parses(end)
  /\ ~BadRange(start, end)

\* ---- observer thread: file dialogs and load_metadata ----
\* lines 167-171: the path is set, then load_metadata queries the database
browse_input(p) ==
  /\ obs = "idle"
  /\ input_path' = p
  /\ obs' = "lm_clear"
  /\ UNCHANGED << bag, output_path, available_topics, topic_names, min_ts, duration,
                  processing, btn, pct, progress_queue, after, w,
                  enqueued, observed, lastStart, rerun >>

\* lines 197-199: the topic tables are emptied
lm_clear ==
  /\ obs = "lm_clear"
  /\ available_topics' = << >>
  /\ topic_names' = << >>
  /\ obs' = "lm_fill"
  /\ UNCHANGED << bag, input_path, output_path, min_ts, duration, processing, btn, pct,
                  progress_queue, after, w, enqueued, observed, lastStart, rerun >>

\* lines 201-205: one entry for each row of the topics table
lm_fill ==
  /\ obs = "lm_fill"
  /\ available_topics' = bag[input_path].topics
  /\ topic_names' = NamesOf(bag[input_path].topics)
  /\ obs' = "lm_ts"
  /\ UNCHANGED << bag, input_path, output_path, min_ts, duration, processing, btn, pct,
                  progress_queue, after, w, enqueued, observed, lastStart, rerun >>

\* lines 208-210: MIN/MAX(timestamp) are None for a log without messages, and
\* line 210 then raises TypeError, caught at line 228
lm_ts ==
  /\ obs = "lm_ts"
  /\ LET m == bag[input_path].msgs IN
       IF m = << >>
       THEN min_ts' = NoVal /\ UNCHANGED duration
       ELSE /\ min_ts' = Val(m[1].timestamp)
            /\ duration' = m[Len(m)].timestamp - m[1].timestamp
  /\ obs' = "idle"
  /\ UNCHANGED << bag, input_path, output_path, available_topics, topic_names,
                  processing, btn, pct, progress_queue, after, w,
                  enqueued, observed, lastStart, rerun >>

\* lines 173-176
browse_output(p) ==
  /\ obs = "idle"
  /\ output_path' = p
  /\ UNCHANGED << bag, input_path, available_topics, topic_names, min_ts, duration,
                  processing, btn, pct, progress_queue, obs, after, w,
                  enqueued, observed, lastStart, rerun >>

\* ---- observer thread: the Process button ----
\* what the call was given, by the conditions of the run trigger's contract
KindOf(sel, start, end) ==
  IF sel = {} THEN "empty"
  ELSE IF start = NoVal \/ end = NoVal THEN "other"
  ELSE IF start[1] < 0 \/ end[1] < start[1] \/ end[1] > duration THEN "range"
  ELSE "other"

\* the history of the runs that ended before a new one starts is dropped: their
\* worker records are cleared, and of the puts only the undelivered ones are kept,
\* tagged 0 when their worker has ended
Pending == SubSeq(enqueued, Len(enqueued) - Len(progress_queue) + 1, Len(enqueued))
Retag(q) == [i \in DOMAIN q |-> IF q[i][1] # 0 /\ Live(q[i][1]) THEN q[i] ELSE << 0, q[i][2] >>]

\* lines 325-345; slot is the record the new thread gets
start_processing(sel, start, end, slot) ==
  /\ obs = "idle"
  /\ btn = "normal"
  /\ ~Live(slot)
  /\ rerun \/ NoRunYet
  /\ \A r \in 1..MaxWorkers : ~Live(r) => slot <= r
  /\ lastStart' = KindOf(sel, start, end)
  /\ IF validate_inputs(sel, start, end)
     THEN /\ processing' = TRUE
          /\ btn' = "disabled"
          /\ pct' = << 0, 1 >>
          /\ w' = [r \in 1..MaxWorkers |->
                     IF r = slot
                     THEN [NoWorker EXCEPT !.pc = "init",
                                           !.selected_topics = Pick(topic_names, sel, 1),
                                           !.start_time = start[1],
                                           !.end_time = end[1]]
                     ELSE IF Live(r) THEN w[r] ELSE NoWorker]
          /\ after' = TRUE
          /\ enqueued' = Retag(Pending)
          /\ observed' = << >>
          /\ rerun' = (rerun /\ NoRunYet)
     ELSE UNCHANGED << processing, btn, pct, w, after, enqueued, observed, rerun >>
  /\ UNCHANGED << bag, input_path, output_path, available_topics, topic_names, min_ts,
                  duration, progress_queue, obs >>

\* ---- worker thread: process_bag ----
\* self.progress_queue.put(e) by worker r, its record becoming wr
Put(r, e, wr) ==
  /\ progress_queue' = Append(progress_queue, e)
  /\ enqueued' = Append(enqueued, << r, e >>)
  /\ w' = [w EXCEPT ![r] = [wr EXCEPT !.emitted = Append(@, e)]]

\* mutant: the error is noted and the worker carries on where it was
Raised_ignored(wr, m) == [wr EXCEPT !.err = m]

\* an exception inside the try block: control goes to line 394
Raised(wr, m) == [wr EXCEPT !.pc = "except0", !.err = m]

\* mutant: the value is computed and clamped whatever the span is
ProgressOf_noZeroCase(ts, start_ns, total_duration) ==
  LET n == (ts - start_ns) * 100 IN
    IF n > 100 * total_duration THEN IntObj(100)
    ELSE IF n <= 0 THEN IntObj(0)
    ELSE Float(n, total_duration)

\* mutant: the value is not clamped
ProgressOf_unclamped(ts, start_ns, total_duration) ==
  IF total_duration > 0
  THEN Float((ts - start_ns) * 100, total_duration)
  ELSE Float(100, 1)

\* lines 379-384: the progress value put for a record stamped ts. max/min return
\* one of their arguments: the int 0 or 100 when the float does not exceed it
ProgressOf(ts, start_ns, total_duration) ==
  IF total_duration > 0
  THEN LET n == (ts - start_ns) * 100 IN
       IF n > 100 * total_duration THEN IntObj(100)
       ELSE IF n <= 0 THEN IntObj(0)
       ELSE Float(n, total_duration)
  ELSE Float(100, 1)

\* mutant: the end of the window is excluded
InWindowStrict(ts, start_ns, end_ns) == start_ns <= ts /\ ts < end_ns

\* line 387
InWindow(ts, start_ns, end_ns) == start_ns <= ts /\ ts <= end_ns

WorkerFrame == << bag, input_path, output_path, available_topics, topic_names, min_ts,
                  duration, btn, pct, obs, after, observed, lastStart, rerun >>

\* lines 349-351
w_init(r) ==
  /\ w[r].pc = "init"
  /\ IF min_ts = NoVal
     THEN w' = [w EXCEPT ![r] = Raised(@, "TypeError")]
     ELSE w' = [w EXCEPT ![r].pc = "open_reader",
                         ![r].start_ns = min_ts[1] + w[r].start_time,
                         ![r].end_ns = min_ts[1] + w[r].end_time,
                         ![r].total_duration = w[r].end_time - w[r].start_time]
  /\ UNCHANGED << WorkerFrame, processing, progress_queue, enqueued >>

\* what the reader delivers of log b after set_filter (line 358)
Delivered(b, selected_topics) ==
  IF b.filters THEN SelectSeq2(b.msgs, Range(selected_topics)) ELSE b.msgs

\* lines 353-358: reader.open may fail; the filter leaves the selected topics
w_open_reader(r) ==
  /\ w[r].pc = "open_reader"
  /\ \/ w' = [w EXCEPT ![r] = Raised(@, "reader.open")]
     \/ w' = [w EXCEPT ![r].pc = "open_writer",
                       ![r].uri_in = input_path,
                       ![r].source = Delivered(bag[input_path], w[r].selected_topics)]
  /\ UNCHANGED << WorkerFrame, processing, progress_queue, enqueued >>

\* lines 360-364: writer.open may fail
w_open_writer(r) ==
  /\ w[r].pc = "open_writer"
  /\ \/ w' = [w EXCEPT ![r] = Raised(@, "writer.open")]
     \/ w' = [w EXCEPT ![r].pc = "create_topics", ![r].uri_out = output_path]
  /\ UNCHANGED << WorkerFrame, processing, progress_queue, enqueued >>

\* mutant: the for loop is left after its first iteration
w_create_topic_firstOnly(r) ==
  /\ w[r].pc = "create_topics"
  /\ LET i == w[r].topic_i IN
       IF i > 1 \/ i > Len(w[r].selected_topics)
       THEN w' = [w EXCEPT ![r].pc = "loop"]
       ELSE LET name == w[r].selected_topics[i] IN
            IF HasKey(available_topics, name)
            THEN w' = [w EXCEPT ![r].topic_i = i + 1,
                                ![r].declared = Append(@, << name, Lookup(available_topics, name) >>)]
            ELSE w' = [w EXCEPT ![r] = Raised(@, "KeyError")]
  /\ UNCHANGED << WorkerFrame, processing, progress_queue, enqueued >>

\* lines 367-373, one iteration of the for loop (or its exit)
w_create_topic(r) ==
  /\ w[r].pc = "create_topics"
  /\ LET i == w[r].topic_i IN
       IF i > Len(w[r].selected_topics)
       THEN w' = [w EXCEPT ![r].pc = "loop"]
       ELSE LET name == w[r].selected_topics[i] IN
            IF HasKey(available_topics, name)
            THEN w' = [w EXCEPT ![r].topic_i = i + 1,
                                ![r].declared = Append(@, << name, Lookup(available_topics, name) >>)]
            ELSE w' = [w EXCEPT ![r] = Raised(@, "KeyError")]
  /\ UNCHANGED << WorkerFrame, processing, progress_queue, enqueued >>

\* line 375: the loop condition
LoopGoesOn(r) == w[r].pos < Len(w[r].source) /\ processing

w_loop(r) ==
  /\ w[r].pc = "loop"
  /\ w' = [w EXCEPT ![r].pc = IF LoopGoesOn(r) THEN "read" ELSE "put100",
                    ![r].aborted = ~LoopGoesOn(r) /\ w[r].pos < Len(w[r].source),
                    ![r].readAfterStop = LoopGoesOn(r) /\ w[r].stopped]
  /\ UNCHANGED << WorkerFrame, processing, progress_queue, enqueued >>

\* lines 376-388, the body of the while loop: read_next may fail; otherwise the
\* progress of the record is put and, inside the window, the record is written,
\* which may fail (the writer is the worker's own: the write is not a step apart)
w_record(r) ==
  /\ w[r].pc = "read"
  /\ \/ /\ w' = [w EXCEPT ![r] = Raised(@, "read_next")]
        /\ UNCHANGED << progress_queue, enqueued >>
     \/ LET rec == w[r].source[w[r].pos + 1]
            e == ProgressOf(rec.timestamp, w[r].start_ns, w[r].total_duration)
            read == [w[r] EXCEPT !.pos = @ + 1] IN
          IF InWindow(rec.timestamp, w[r].start_ns, w[r].end_ns)
          THEN \/ Put(r, e, Raised(read, "write"))
               \/ Put(r, e, [read EXCEPT !.pc = "loop", !.written = Append(@, rec)])
          ELSE Put(r, e, [read EXCEPT !.pc = "loop"])
  /\ UNCHANGED << WorkerFrame, processing >>

\* mutant: the final 100% is not put
w_put100_skipped(r) ==
  /\ w[r].pc = "put100"
  /\ w' = [w EXCEPT ![r].pc = "putSuccess"]
  /\ UNCHANGED << WorkerFrame, processing, progress_queue, enqueued >>

\* line 391
w_put100(r) ==
  /\ w[r].pc = "put100"
  /\ Put(r, Float(100, 1), [w[r] EXCEPT !.pc = "putSuccess"])
  /\ UNCHANGED << WorkerFrame, processing >>

\* line 393
w_putSuccess(r) ==
  /\ w[r].pc = "putSuccess"
  /\ Put(r, SUCCESS, [w[r] EXCEPT !.pc = "finally"])
  /\ UNCHANGED << WorkerFrame, processing >>

\* mutant: the progress is not reset before the error is put
w_except0_skipped(r) ==
  /\ w[r].pc = "except0"
  /\ w' = [w EXCEPT ![r].pc = "exceptErr"]
  /\ UNCHANGED << WorkerFrame, processing, progress_queue, enqueued >>

\* line 396
w_except0(r) ==
  /\ w[r].pc = "except0"
  /\ Put(r, Float(0, 1), [w[r] EXCEPT !.pc = "exceptErr"])
  /\ UNCHANGED << WorkerFrame, processing >>

\* line 398
w_exceptErr(r) ==
  /\ w[r].pc = "exceptErr"
  /\ Put(r, ERROR(w[r].err), [w[r] EXCEPT !.pc = "finally"])
  /\ UNCHANGED << WorkerFrame, processing >>

\* line 400
w_finally(r) ==
  /\ w[r].pc = "finally"
  /\ processing' = FALSE
  /\ w' = [w EXCEPT ![r].pc = "done"]
  /\ UNCHANGED << WorkerFrame, progress_queue, enqueued >>

\* ---- observer thread: check_progress ----
\* lines 405-408: only a float moves the bar
Shown(msg, old) == IF msg.tag = "float" THEN << msg.num, msg.den >> ELSE old

\* mutant: the newest event is taken
GetNewest(q) == q[Len(q)]

\* queue.get_nowait(): the oldest event
Get(q) == Head(q)
Rest(q) == Tail(q)

\* the timer set by root.after(50, ...) fires and check_progress tests the queue
cp_tick ==
  /\ obs = "idle"
  /\ after
  /\ after' = FALSE
  /\ obs' = "drain"
  /\ UNCHANGED << bag, input_path, output_path, available_topics, topic_names, min_ts,
                  duration, processing, btn, pct, progress_queue, w,
                  enqueued, observed, lastStart, rerun >>

\* lines 403-412, one iteration of the while loop (or its exit)
cp_drain ==
  /\ obs = "drain"
  /\ IF progress_queue # << >>
     THEN /\ progress_queue' = Rest(progress_queue)
          /\ observed' = Append(observed, Get(progress_queue))
          /\ pct' = Shown(Get(progress_queue), pct)
          /\ UNCHANGED obs
     ELSE /\ obs' = "check"
          /\ UNCHANGED << progress_queue, observed, pct >>
  /\ UNCHANGED << bag, input_path, output_path, available_topics, topic_names, min_ts,
                  duration, processing, btn, after, w, enqueued, lastStart, rerun >>

\* mutant: the button is never enabled again
cp_check_noEnable ==
  /\ obs = "check"
  /\ after' = processing
  /\ obs' = "idle"
  /\ UNCHANGED << bag, input_path, output_path, available_topics, topic_names, min_ts,
                  duration, processing, btn, pct, progress_queue, w,
                  enqueued, observed, lastStart, rerun >>

\* mutant: the button is enabled after every tick
cp_check_alwaysEnable ==
  /\ obs = "check"
  /\ after' = processing
  /\ btn' = "normal"
  /\ obs' = "idle"
  /\ UNCHANGED << bag, input_path, output_path, available_topics, topic_names, min_ts,
                  duration, processing, pct, progress_queue, w,
                  enqueued, observed, lastStart, rerun >>

\* lines 414-417
cp_check ==
  /\ obs = "check"
  /\ IF processing
     THEN after' = TRUE /\ UNCHANGED btn
     ELSE btn' = "normal" /\ UNCHANGED after
  /\ obs' = "idle"
  /\ UNCHANGED << bag, input_path, output_path, available_topics, topic_names, min_ts,
                  duration, processing, pct, progress_queue, w,
                  enqueued, observed, lastStart, rerun >>

\* ---- the two threads ----
Worker(r) ==
  \/ w_init(r) \/ w_open_reader(r) \/ w_open_writer(r) \/ w_create_topic(r)
  \/ w_loop(r) \/ w_record(r)
  \/ w_put100(r) \/ w_putSuccess(r) \/ w_except0(r) \/ w_exceptErr(r) \/ w_finally(r)

Observer ==
  \/ \E p \in DOMAIN bag : browse_input(p)
  \/ lm_clear \/ lm_fill \/ lm_ts
  \/ \E p \in OutDirs : browse_output(p)
  \/ \E sel \in SUBSET (1..Len(topic_names)) : \E start \in Entries : \E end \in Entries :
       \E slot \in 1..MaxWorkers : start_processing(sel, start, end, slot)
  \/ cp_tick \/ cp_drain \/ cp_check

\* a stop request from outside the engine clears the flag (spec.md 3, RunState); the
\* workers alive at that moment are marked
StopRequest ==
  /\ obs = "idle"
  /\ processing
  /\ processing' = FALSE
  /\ w' = [r \in 1..MaxWorkers |-> IF Live(r) THEN [w[r] EXCEPT !.stopped = TRUE] ELSE w[r]]
  /\ UNCHANGED << bag, input_path, output_path, available_topics, topic_names, min_ts,
                  duration, btn, pct, progress_queue, obs, after,
                  enqueued, observed, lastStart, rerun >>

Next == Observer \/ \E r \in 1..MaxWorkers : Worker(r)

NextStop == Next \/ StopRequest

\* the program as it is
Spec == Init /\ [][Next]_vars
SpecRerun == InitRerun /\ [][Next]_vars

\* the program on a storage that ignores the topic filter
SpecUnfiltered == InitUnfiltered /\ [][Next]_vars

\* the program with a caller that may request a stop
SpecStop == InitRerun /\ [][NextStop]_vars

\* scheduling: a live thread keeps running, a callback that has begun returns, and
\* the Tk main loop runs a due timer between two other callbacks
Fairness ==
  /\ \A r \in 1..MaxWorkers : WF_vars(Worker(r))
  /\ WF_vars(lm_clear) /\ WF_vars(lm_fill) /\ WF_vars(lm_ts)
  /\ WF_vars(cp_drain) /\ WF_vars(cp_check)
  /\ SF_vars(cp_tick)

FairSpec == InitRerun /\ [][NextStop]_vars /\ Fairness

\* ======================= the claims =======================
Workers == 1..MaxWorkers
Last(s) == s[Len(s)]
Emitted(r) == w[r].emitted
HasSuccess(r) == \E i \in 1..Len(Emitted(r)) : Emitted(r)[i] = SUCCESS
Terminals(s) == { i \in 1..Len(s) : IsTerminal(s[i]) }

RECURSIVE Matching(_, _, _, _)
\* the records of log s on a topic of sel stamped within [lo, hi], in order
Matching(s, sel, lo, hi) ==
  IF s = << >> THEN << >>
  ELSE IF Head(s).topic \in sel /\ lo <= Head(s).timestamp /\ Head(s).timestamp <= hi
       THEN << Head(s) >> \o Matching(Tail(s), sel, lo, hi)
       ELSE Matching(Tail(s), sel, lo, hi)

\* C1: once a run has emitted Success, what its writer was given is exactly the
\* records of the source log on a selected channel and stamped within
\* [start_ns, end_ns], in source order
C1_SuccessCopiesSelection ==
  \A r \in Workers :
    HasSuccess(r) =>
      w[r].written = Matching(bag[w[r].uri_in].msgs, Range(w[r].selected_topics),
                              w[r].start_ns, w[r].end_ns)

\* a successful run that wrote a record and left another one out
C1_Witness ==
  \E r \in Workers :
    /\ HasSuccess(r)
    /\ w[r].written # << >>
    /\ Len(w[r].written) < Len(bag[w[r].uri_in].msgs)

\* C2: the events of a run have at most one terminal event, the last one; a run
\* that has ended has one; and the event before Success is Progress(100)
C2_OneTerminalLast ==
  \A r \in Workers :
    LET em == Emitted(r) IN
      /\ Terminals(em) \subseteq {Len(em)}
      /\ w[r].pc = "done" => em # << >> /\ IsTerminal(Last(em))
      /\ (em # << >> /\ Last(em) = SUCCESS) =>
           Len(em) >= 2 /\ em[Len(em) - 1].tag = "float" /\ IsPct(em[Len(em) - 1], 100)

\* a run that ended with Success after reading a record
C2_Witness ==
  \E r \in Workers : w[r].pc = "done" /\ Last(Emitted(r)) = SUCCESS /\ Len(Emitted(r)) >= 3

\* the observer is polling: a tick is pending or check_progress is running
Polling == after \/ obs \in {"drain", "check"}

\* C3: the observer does not stop polling while a terminal event is still in the
\* progress queue
C3_TerminalDelivered ==
  ~Polling => \A i \in 1..Len(progress_queue) : ~IsTerminal(progress_queue[i])

EventsOf(h) == [i \in DOMAIN h |-> h[i][2]]

\* C4: what the observer has dequeued is a prefix of what was enqueued, in that
\* order, and no Progress event of a run comes after the run's terminal event
C4_ObservedInOrder ==
  /\ Len(observed) <= Len(enqueued)
  /\ observed = SubSeq(EventsOf(enqueued), 1, Len(observed))
  /\ \A i \in 1..Len(observed) : \A j \in 1..Len(observed) :
       (i < j /\ enqueued[i][1] # 0 /\ enqueued[i][1] = enqueued[j][1]
          /\ IsTerminal(observed[i])) => ~IsProgress(observed[j])

\* the observer has dequeued a run's events up to its terminal event
C4_Witness ==
  /\ Len(observed) >= 3
  /\ IsTerminal(Last(observed))
  /\ enqueued[Len(observed)][1] # 0

\* C5: a call of start_processing with no channel selected, or with start < 0,
\* end < start or end beyond the log's duration, leaves processing false, starts
\* no worker, schedules no tick and enqueues nothing
C5_RejectedBeforeIO ==
  [][lastStart' \in {"empty", "range"} =>
       /\ processing' = FALSE
       /\ UNCHANGED << processing, btn, w, after, progress_queue, enqueued >>]_vars

\* a call with a bad time range was made when paths and selection were in order
C5_Witness ==
  /\ lastStart = "range"
  /\ input_path # "" /\ output_path # "" /\ topic_names # << >>
  /\ NoRunYet

\* C6: a run in which an error was raised ends with Progress(0) and then one
\* Failure carrying the error, emits no Success, and has cleared processing when
\* the worker is done
C6_ErrorBecomesFailure ==
  \A r \in Workers :
    LET em == Emitted(r) IN
      /\ (w[r].err # "" /\ w[r].pc \in {"finally", "done"}) =>
            /\ Len(em) >= 2
            /\ Last(em) = ERROR(w[r].err)
            /\ em[Len(em) - 1] = Float(0, 1)
            /\ Terminals(em) = {Len(em)}
            /\ ~HasSuccess(r)
      /\ w[r].pc = "done" => ~processing

\* a run whose write failed after a record had been written
C6_Witness ==
  \E r \in Workers : w[r].pc = "done" /\ w[r].err = "write" /\ w[r].written # << >>

\* C7: a run that left its loop because processing was cleared, with records
\* still unread, enqueues neither Success nor Failure
C7_AbortHasNoTerminal ==
  \A r \in Workers : w[r].aborted => Terminals(Emitted(r)) = {}

\* C8: a worker that was running when a stop request cleared processing does not
\* pass its loop condition again
C8_NoReadAfterStop ==
  \A r \in Workers : ~w[r].readAfterStop

\* the run is over for the observer: flag clear, no tick pending, button enabled
Quiescent == ~processing /\ ~Polling /\ obs = "idle" /\ btn = "normal"

\* C9: whenever the Process button is disabled (a run was started), a state
\* follows in which processing is false, polling has stopped and the button is
\* enabled again
C9_TriggerComesBack == (btn = "disabled") ~> Quiescent

\* a run that was stopped by request has ended and the button is enabled again
C9_Witness ==
  Quiescent /\ \E r \in Workers : w[r].pc = "done" /\ w[r].stopped

\* C10: while processing is true the Process button is disabled
C10_ProcessingDisablesTrigger ==
  processing => btn = "disabled"

\* the second run of a session is in progress
C10_Witness ==
  processing /\ btn = "disabled" /\ ~rerun /\ \E r \in Workers : w[r].pc = "loop"

\* a run whose window is one instant: total_duration is 0
ZeroSpan(r) == w[r].pc # "none" /\ w[r].start_time = w[r].end_time

\* C11, as stated: in a run with start_ns = end_ns every Progress event put has
\* value 100, whatever the outcome of the run
C11_ZeroSpanAll100 ==
  \A r \in Workers :
    ZeroSpan(r) =>
      \A i \in 1..Len(Emitted(r)) : IsProgress(Emitted(r)[i]) => IsPct(Emitted(r)[i], 100)

\* C11, amended: in a run with start_ns = end_ns every Progress event put has
\* value 100, except the 0.0 put by the except clause right before the Failure
C11_ZeroSpanProgress ==
  \A r \in Workers :
    ZeroSpan(r) =>
      LET em == Emitted(r) IN
        \A i \in 1..Len(em) :
          IsProgress(em[i]) =>
            \/ IsPct(em[i], 100)
            \/ /\ em[i] = Float(0, 1)
               /\ w[r].err # ""
               /\ \/ i = Len(em) /\ w[r].pc = "exceptErr"
                  \/ i = Len(em) - 1 /\ em[Len(em)] = ERROR(w[r].err)

\* a run of span 0 that read two records and failed on the third
C11_Witness ==
  \E r \in Workers :
    /\ ZeroSpan(r) /\ w[r].pc = "done" /\ w[r].err = "read_next"
    /\ Len(Emitted(r)) = 4

\* C12: once a read or a write has failed, what was written stays as it is,
\* the worker reads and writes nothing more (no retry), goes through its except
\* and finally clauses, and ends with the Failure as its last event
C12_FailureLeavesPartial ==
  [][\A r \in Workers :
       w[r].err \in {"read_next", "write"} =>
         /\ w'[r].written = w[r].written
         /\ w'[r].pos = w[r].pos
         /\ w'[r].err = w[r].err
         /\ w'[r].pc \in {"except0", "exceptErr", "finally", "done"}
         /\ w'[r].pc = "done" => Last(w'[r].emitted) = ERROR(w[r].err)]_vars

\* a run whose second write failed, with a record of the source still unread
C12_Witness ==
  \E r \in Workers :
    /\ w[r].pc = "done" /\ w[r].err = "write"
    /\ Len(w[r].written) = 1
    /\ w[r].pos < Len(w[r].source)

\* C13: at most one worker thread is between its start and its exit
C13_OneWorker ==
  Cardinality({ r \in Workers : Live(r) }) <= 1

\* C14: no event put by a run that ended before the last start is in the queue
\* when the new run starts or is dequeued by the polling of the new run (such
\* events are the ones tagged 0 in the history kept since the last start)
C14_ChannelPerRun ==
  \A i \in 1..Len(enqueued) : enqueued[i][1] # 0

\* C15: whatever the reader delivers, the writer is given records on selected
\* channels only, and a delivered record on another channel is not what makes
\* a run fail
C15_EngineChecksChannel ==
  \A r \in Workers :
    /\ \A i \in 1..Len(w[r].written) : w[r].written[i].topic \in Range(w[r].selected_topics)
    /\ (w[r].err = "write" /\ w[r].pos > 0) =>
          w[r].source[w[r].pos].topic \in Range(w[r].selected_topics)

\* C16: when check_progress dequeues a Progress event, the displayed percentage
\* becomes the value of that event
C16_ProgressShown ==
  [][(Len(observed') = Len(observed) + 1 /\ IsProgress(Last(observed'))) =>
        pct'[1] * Last(observed').den = Last(observed').num * pct'[2]]_vars

\* C17: the worker declares its selected channels with the types recorded when
\* the run was started (the topics table of the log loaded then), and nothing
\* the observer does during the run makes a declaration fail
C17_ParamsFixedAtStart ==
  \A r \in Workers :
    /\ w[r].err # "KeyError"
    /\ \A i \in 1..Len(w[r].declared) : \A d \in InDirs :
         w[r].declared[i] = << w[r].selected_topics[i],
                               Lookup(bag[d].topics, w[r].selected_topics[i]) >>

Fraction(ts, start_ns, total_span) ==
  IF total_span > 0
  THEN IF ts <= start_ns THEN << 0, 1 >>
       ELSE IF ts >= start_ns + total_span THEN << 100, 1 >>
       ELSE << (ts - start_ns) * 100, total_span >>
  ELSE << 100, 1 >>

\* C19: every Progress event put has a value in [0, 100], and the k-th event of
\* a run is the Progress event of the k-th record read, with the clamped
\* fraction of that record's timestamp as its value, written or not
C19_ProgressValue ==
  \A r \in Workers :
    LET em == Emitted(r) IN
      /\ \A i \in 1..Len(em) :
           IsProgress(em[i]) => em[i].den > 0 /\ 0 <= em[i].num /\ em[i].num <= 100 * em[i].den
      /\ Len(em) >= w[r].pos
      /\ \A k \in 1..w[r].pos :
           LET f == Fraction(w[r].source[k].timestamp, w[r].start_ns, w[r].total_duration) IN
             IsProgress(em[k]) /\ em[k].num * f[2] = f[1] * em[k].den

\* a run that read three records, one with a value strictly between 0 and 100,
\* and did not write all of them
C19_Witness ==
  \E r \in Workers :
    /\ w[r].pc = "done" /\ w[r].pos = 3 /\ Len(w[r].written) < 3
    /\ \E k \in 1..3 : 0 < Emitted(r)[k].num /\ Emitted(r)[k].num < 100 * Emitted(r)[k].den

====
